---- MODULE Spec2Model ----
(***************************************************************************)
(* Model of examples/network/network_api_demo_prediction.py: the network   *)
(* built by createNetwork (four regions, ten links), network.initialize(), *)
(* and the driving loop of runNetwork (one network.run(1) per record, the  *)
(* near-maximum candidate selection, the row handed to the csv writer).    *)
(*                                                                         *)
(* The engine behind Network (scheduling order, cycle check, one-tick      *)
(* delayed feedback values) is not part of the demo's file; it is modelled *)
(* from the design document (sections 4.1 and 4.2).                        *)
(*                                                                         *)
(* Probabilities are exact multiples of 5e-6, so the source's epsilon of   *)
(* 1e-5 is 2 units; floating-point rounding is not modelled.               *)
(* Python lists are sequences read through the 0-based accessor At.        *)
(***************************************************************************)
EXTENDS Integers, Sequences, FiniteSets, TLC

VARIABLES
  class,          \* tag of each link of the graph: "FeedForward" | "Feedback"
  phase,          \* "created" | "initialized" | "IllegalCycleError"
  order,          \* the per-tick evaluation order fixed by initialize()
  net,            \* engine state: outputs, feedback buffers, reads, step counts
  pc,             \* runNetwork: "notStarted" | "head" | "body" | "done" | "error"
  recordCount,    \* number of records the loop is asked for (_NUM_RECORDS)
  iter,           \* number of iterations of the for loop begun so far
  i,              \* the Python variable i of runNetwork (-1: not yet bound)
  actualValues,   \* classifier output read on the last iteration
  probabilities,  \* classifier output read on the last iteration
  candidates,     \* the list built by the comprehension on the last iteration
  draw,           \* the value random.randint returned on the last iteration
  rows,           \* rows handed to writer.writerow, in order
  errKind,        \* "none" | "TickError" | "ValueError"
  drawB,          \* second run of a pair of runs: its draw
  rowsB,          \* second run of a pair of runs: its rows
  excused         \* pair of runs: some tick had differing draws and a tie

vars == <<class, phase, order, net, pc, recordCount, iter, i, actualValues,
          probabilities, candidates, draw, rows, errKind, drawB, rowsB, excused>>

graphVars == <<class, phase, order>>
loopVars == <<pc, recordCount, iter, i, actualValues, probabilities,
              candidates, draw, rows, errKind>>
pairVars == <<drawB, rowsB, excused>>

-----------------------------------------------------------------------------
(* Bounds of the model *)

MaxRecords == 2
MaxCand == 3
MaxProb == 3
MaxTicks == 3

-----------------------------------------------------------------------------
(* Helpers *)

Range(s) == {s[k] : k \in 1..Len(s)}

At(list, j) == list[j + 1]

Max(list) == CHOOSE m \in Range(list) : \A x \in Range(list) : x <= m

MinOf(S) == CHOOSE m \in S : \A x \in S : m <= x

-----------------------------------------------------------------------------
(* createNetwork: the graph *)

DemoRegions ==
  <<"sensor", "spatialPoolerRegion", "temporalPoolerRegion", "SDRClassifierRegion">>

Regions == Range(DemoRegions)

Link(s, d, so, di) == [src |-> s, dst |-> d, srcOutput |-> so, destInput |-> di]

\* Variants of the link list, each differing from createNetwork's in one wiring.
DemoLinksWrongTopDownSource ==
  << Link("sensor", "spatialPoolerRegion", "", ""),
     Link("sensor", "spatialPoolerRegion", "resetOut", "resetIn"),
     Link("spatialPoolerRegion", "sensor", "spatialTopDownOut", "spatialTopDownIn"),
     Link("temporalPoolerRegion", "sensor", "temporalTopDownOut", "temporalTopDownIn"),
     Link("spatialPoolerRegion", "temporalPoolerRegion", "", ""),
     Link("temporalPoolerRegion", "spatialPoolerRegion", "topDownOut", "topDownIn"),
     Link("temporalPoolerRegion", "SDRClassifierRegion", "bottomUpOut", "bottomUpIn"),
     Link("sensor", "SDRClassifierRegion", "sourceOut", "categoryIn"),
     Link("temporalPoolerRegion", "SDRClassifierRegion", "predictedActiveCells",
          "predictedActiveCells"),
     Link("sensor", "SDRClassifierRegion", "sequenceIdOut", "sequenceIdIn") >>

DemoLinksTopDownReversed ==
  << Link("sensor", "spatialPoolerRegion", "", ""),
     Link("sensor", "spatialPoolerRegion", "resetOut", "resetIn"),
     Link("spatialPoolerRegion", "sensor", "spatialTopDownOut", "spatialTopDownIn"),
     Link("spatialPoolerRegion", "sensor", "temporalTopDownOut", "temporalTopDownIn"),
     Link("spatialPoolerRegion", "temporalPoolerRegion", "", ""),
     Link("spatialPoolerRegion", "temporalPoolerRegion", "topDownOut", "topDownIn"),
     Link("temporalPoolerRegion", "SDRClassifierRegion", "bottomUpOut", "bottomUpIn"),
     Link("sensor", "SDRClassifierRegion", "sourceOut", "categoryIn"),
     Link("temporalPoolerRegion", "SDRClassifierRegion", "predictedActiveCells",
          "predictedActiveCells"),
     Link("sensor", "SDRClassifierRegion", "sequenceIdOut", "sequenceIdIn") >>

DemoLinksClassifierReversed ==
  << Link("sensor", "spatialPoolerRegion", "", ""),
     Link("sensor", "spatialPoolerRegion", "resetOut", "resetIn"),
     Link("spatialPoolerRegion", "sensor", "spatialTopDownOut", "spatialTopDownIn"),
     Link("spatialPoolerRegion", "sensor", "temporalTopDownOut", "temporalTopDownIn"),
     Link("spatialPoolerRegion", "temporalPoolerRegion", "", ""),
     Link("temporalPoolerRegion", "spatialPoolerRegion", "topDownOut", "topDownIn"),
     Link("SDRClassifierRegion", "temporalPoolerRegion", "bottomUpOut", "bottomUpIn"),
     Link("sensor", "SDRClassifierRegion", "sourceOut", "categoryIn"),
     Link("SDRClassifierRegion", "temporalPoolerRegion", "predictedActiveCells",
          "predictedActiveCells"),
     Link("sensor", "SDRClassifierRegion", "sequenceIdOut", "sequenceIdIn") >>

\* The links of createNetwork, in the order of its network.link calls; an
\* omitted srcOutput or destInput (the region's default port) is "".
DemoLinks ==
  << Link("sensor", "spatialPoolerRegion", "", ""),
     Link("sensor", "spatialPoolerRegion", "resetOut", "resetIn"),
     Link("spatialPoolerRegion", "sensor", "spatialTopDownOut", "spatialTopDownIn"),
     Link("spatialPoolerRegion", "sensor", "temporalTopDownOut", "temporalTopDownIn"),
     Link("spatialPoolerRegion", "temporalPoolerRegion", "", ""),
     Link("temporalPoolerRegion", "spatialPoolerRegion", "topDownOut", "topDownIn"),
     Link("temporalPoolerRegion", "SDRClassifierRegion", "bottomUpOut", "bottomUpIn"),
     Link("sensor", "SDRClassifierRegion", "sourceOut", "categoryIn"),
     Link("temporalPoolerRegion", "SDRClassifierRegion", "predictedActiveCells",
          "predictedActiveCells"),
     Link("sensor", "SDRClassifierRegion", "sequenceIdOut", "sequenceIdIn") >>

LinkIds == 1..Len(DemoLinks)

-----------------------------------------------------------------------------
(* The engine: link classes, scheduling order, cycle check, tick *)

TopDownInputs == {"spatialTopDownIn", "temporalTopDownIn", "topDownIn"}

LinkClass(l) == IF l.destInput \in TopDownInputs THEN "Feedback" ELSE "FeedForward"

DemoClass == [k \in LinkIds |-> LinkClass(DemoLinks[k])]

Taggings == [LinkIds -> {"FeedForward", "Feedback"}]

FFPreds(r, c) ==
  {DemoLinks[k].src : k \in {n \in LinkIds : DemoLinks[n].dst = r /\ c[n] = "FeedForward"}}

RECURSIVE Schedule(_, _)
Schedule(done, c) ==
  LET ready == {n \in 1..Len(DemoRegions) :
                  /\ DemoRegions[n] \notin Range(done)
                  /\ FFPreds(DemoRegions[n], c) \subseteq Range(done)}
  IN IF ready = {} THEN done
     ELSE Schedule(Append(done, DemoRegions[MinOf(ready)]), c)

Neutral == <<>>

Produced(r, t) == <<r, t>>

InitNet ==
  [out     |-> [r \in Regions |-> Neutral],
   current |-> [k \in LinkIds |-> Neutral],
   pending |-> [k \in LinkIds |-> Neutral],
   read    |-> [k \in LinkIds |-> Neutral],
   steps   |-> [r \in Regions |-> 0],
   tick    |-> 0]

Gather(n, r) ==
  [k \in LinkIds |->
     IF DemoLinks[k].dst = r
     THEN (IF class[k] = "FeedForward" THEN n.out[DemoLinks[k].src] ELSE n.current[k])
     ELSE n.read[k]]

StepRegion(n, r) ==
  [n EXCEPT !.read = Gather(n, r),
            !.out[r] = Produced(r, n.tick),
            !.steps[r] = @ + 1,
            !.pending = [k \in LinkIds |->
                           IF DemoLinks[k].src = r /\ class[k] = "Feedback"
                           THEN Produced(r, n.tick) ELSE n.pending[k]]]

RECURSIVE StepFrom(_, _, _)
StepFrom(n, pos, last) ==
  IF pos > last THEN n ELSE StepFrom(StepRegion(n, order[pos]), pos + 1, last)

TickNet(n) ==
  LET m == StepFrom(n, 1, Len(order))
  IN [m EXCEPT !.current = m.pending, !.tick = @ + 1]

FailedTick(n, pos) ==
  LET m == StepFrom(n, 1, pos - 1)
  IN [m EXCEPT !.steps[order[pos]] = @ + 1]

RECURSIVE Run(_, _)
Run(n, count) == IF count = 0 THEN n ELSE Run(TickNet(n), count - 1)

RunTwice == 1 + 1

RunCount == 1

Initialize ==
  /\ phase = "created"
  /\ LET o == Schedule(<<>>, class)
     IN IF Len(o) = Len(DemoRegions)
        THEN phase' = "initialized" /\ order' = o
        ELSE phase' = "IllegalCycleError" /\ order' = <<>>
  /\ UNCHANGED <<class, net>>
  /\ UNCHANGED loopVars
  /\ UNCHANGED pairVars

Tick ==
  /\ phase = "initialized"
  /\ net.tick < MaxTicks
  /\ net' = Run(net, RunCount)
  /\ UNCHANGED graphVars
  /\ UNCHANGED loopVars
  /\ UNCHANGED pairVars

-----------------------------------------------------------------------------
(* runNetwork: the driving loop *)

Epsilon == 2

Value(j) == 10 * j

ClassifierValues == {[j \in 1..n |-> Value(j)] : n \in 0..MaxCand}

ClassifierProbabilities(av) == [1..Len(av) -> 0..MaxProb]

NearFlipped(p, pMax) == (p - pMax) > Epsilon

Near(p, pMax) == (p - pMax) < Epsilon

\* The tie set of the design document: indices within epsilon below the maximum.
TieIdx(pr) == {j \in 0..(Len(pr) - 1) : Max(pr) - At(pr, j) < Epsilon}

TieSet(av, pr) == {At(av, j) : j \in TieIdx(pr)}

RECURSIVE Comprehension(_, _, _, _)
Comprehension(av, pr, pMax, j) ==
  IF j >= Len(av) THEN <<>>
  ELSE (IF Near(At(pr, j), pMax) THEN <<At(av, j)>> ELSE <<>>)
       \o Comprehension(av, pr, pMax, j + 1)

Candidates(av, pr) == Comprehension(av, pr, Max(pr), 0)

LeakedIndex(av, loopIndex) == IF Len(av) > 0 THEN Len(av) - 1 ELSE loopIndex

Row(recordNumber, consumption, prediction) ==
  [recordNumber |-> recordNumber, consumption |-> consumption,
   prediction |-> prediction]

StartRun ==
  /\ phase = "initialized"
  /\ pc = "notStarted"
  /\ pc' = "head"
  /\ UNCHANGED <<recordCount, iter, i, actualValues, probabilities, candidates,
                 draw, rows, errKind, net>>
  /\ UNCHANGED graphVars
  /\ UNCHANGED pairVars

\* The for statement binds i to the next record number. The locals of the
\* previous iteration are rebound before they are read again; they are reset
\* here, so that states at the head of the loop differ only in what the
\* program can still observe.
NextRecord ==
  /\ pc = "head"
  /\ iter < recordCount
  /\ i' = iter
  /\ iter' = iter + 1
  /\ pc' = "body"
  /\ actualValues' = <<>>
  /\ probabilities' = <<>>
  /\ candidates' = <<>>
  /\ draw' = 0
  /\ drawB' = 0
  /\ UNCHANGED <<recordCount, rows, errKind, net, rowsB, excused>>
  /\ UNCHANGED graphVars

\* One pass through the body that reaches writer.writerow: the classifier
\* returned av and pr, and random.randint returned d.
IterateOk(av, pr, d) ==
  LET c == Candidates(av, pr)
  IN /\ Len(c) > 0
     /\ d \in 0..(Len(c) - 1)
     /\ actualValues' = av
     /\ probabilities' = pr
     /\ candidates' = c
     /\ i' = LeakedIndex(av, i)
     /\ draw' = d
     /\ rows' = Append(rows, Row(i', net'.out["sensor"], At(c, d)))

Iterate ==
  /\ pc = "body"
  /\ net' = Run(net, RunCount)
  /\ \E av \in ClassifierValues \ {<<>>} : \E pr \in ClassifierProbabilities(av) :
       \E d \in 0..(Len(av) - 1) : IterateOk(av, pr, d)
  /\ pc' = "head"
  /\ UNCHANGED <<recordCount, iter, errKind>>
  /\ UNCHANGED graphVars
  /\ UNCHANGED pairVars

IterTickSkipped ==
  /\ pc = "body"
  /\ \E pos \in 1..Len(order) : net' = FailedTick(net, pos)
  /\ pc' = "head"
  /\ errKind' = "TickError"
  /\ UNCHANGED <<recordCount, iter, i, actualValues, probabilities, candidates,
                 draw, rows>>
  /\ UNCHANGED graphVars
  /\ UNCHANGED pairVars

IterTickFails ==
  /\ pc = "body"
  /\ \E pos \in 1..Len(order) : net' = FailedTick(net, pos)
  /\ pc' = "error"
  /\ errKind' = "TickError"
  /\ UNCHANGED <<recordCount, iter, i, actualValues, probabilities, candidates,
                 draw, rows>>
  /\ UNCHANGED graphVars
  /\ UNCHANGED pairVars

IterSelectFails ==
  /\ pc = "body"
  /\ \E av \in ClassifierValues : \E pr \in ClassifierProbabilities(av) :
       /\ IF Len(av) = 0 THEN TRUE ELSE Len(Candidates(av, pr)) = 0
       /\ actualValues' = av
       /\ probabilities' = pr
       /\ candidates' = IF Len(av) = 0 THEN candidates ELSE Candidates(av, pr)
       /\ i' = IF Len(av) = 0 THEN i ELSE LeakedIndex(av, i)
  /\ net' = Run(net, RunCount)
  /\ pc' = "error"
  /\ errKind' = "ValueError"
  /\ UNCHANGED <<recordCount, iter, draw, rows>>
  /\ UNCHANGED graphVars
  /\ UNCHANGED pairVars

PairIterate ==
  /\ pc = "body"
  /\ net' = Run(net, RunCount)
  /\ \E av \in ClassifierValues \ {<<>>} : \E pr \in ClassifierProbabilities(av) :
       \E d \in 0..(Len(av) - 1) : \E dB \in 0..(Len(av) - 1) :
         /\ IterateOk(av, pr, d)
         /\ dB \in 0..(Len(candidates') - 1)
         /\ drawB' = dB
         /\ rowsB' = Append(rowsB, Row(i', net'.out["sensor"], At(candidates', dB)))
         /\ excused' = (excused \/ (d # dB /\ Cardinality(TieIdx(pr)) > 1))
  /\ pc' = "head"
  /\ UNCHANGED <<recordCount, iter, errKind>>
  /\ UNCHANGED graphVars

\* The loop is exhausted and runNetwork returns; its locals are gone.
Finish ==
  /\ pc = "head"
  /\ iter = recordCount
  /\ pc' = "done"
  /\ actualValues' = <<>>
  /\ probabilities' = <<>>
  /\ candidates' = <<>>
  /\ draw' = 0
  /\ drawB' = 0
  /\ UNCHANGED <<recordCount, iter, i, rows, errKind, net, rowsB, excused>>
  /\ UNCHANGED graphVars

-----------------------------------------------------------------------------
(* Specifications *)

InitCommon ==
  /\ phase = "created"
  /\ order = <<>>
  /\ net = InitNet
  /\ pc = "notStarted"
  /\ iter = 0
  /\ i = -1
  /\ actualValues = <<>>
  /\ probabilities = <<>>
  /\ candidates = <<>>
  /\ draw = 0
  /\ rows = <<>>
  /\ errKind = "none"
  /\ drawB = 0
  /\ rowsB = <<>>
  /\ excused = FALSE

Init ==
  /\ InitCommon
  /\ class = DemoClass
  /\ recordCount \in 0..MaxRecords

Next ==
  \/ Initialize
  \/ StartRun
  \/ NextRecord
  \/ Iterate
  \/ IterTickFails
  \/ IterSelectFails
  \/ Finish

Spec == Init /\ [][Next]_vars

InitGraph ==
  /\ InitCommon
  /\ class \in Taggings
  /\ recordCount = 0

NextGraph ==
  \/ Initialize
  \/ Tick

SpecGraph == InitGraph /\ [][NextGraph]_vars

InitPair == Init

NextPair ==
  \/ Initialize
  \/ StartRun
  \/ NextRecord
  \/ PairIterate
  \/ IterTickFails
  \/ IterSelectFails
  \/ Finish

SpecPair == InitPair /\ [][NextPair]_vars

-----------------------------------------------------------------------------
(* Properties of the driving loop *)

\* The last iteration begun wrote a row: the state holds that iteration's
\* classifier outputs, candidate list and draw.
Selected == pc = "head" /\ iter > 0

LastRow == rows[Len(rows)]

\* C2: the prediction written after a tick is a candidate whose probability
\* is within epsilon of the maximum probability (a candidate at least
\* epsilon below the maximum is never selected).
C2_SelectedNearMax ==
  Selected =>
    \A j \in 0..(Len(actualValues) - 1) :
      At(actualValues, j) = LastRow.prediction
        => Max(probabilities) - At(probabilities, j) < Epsilon

\* C3: the k-th row handed to the writer (k from 0) carries record number k,
\* whatever the number of candidate values the classifier returned.
C3_RecordNumbers ==
  \A k \in 1..Len(rows) : rows[k].recordNumber = k - 1

\* C6: two runs over the same records and classifier outputs write the same
\* rows unless, on some tick, their draws differed and the tie set had more
\* than one element.
C6_Determinism == (rows # rowsB) => excused

\* C7: once a tick fails the run is in its error state; the failed tick has
\* no row, is not retried or skipped, and nothing runs or is written after.
C7_Inv ==
  errKind = "TickError" =>
    /\ pc = "error"
    /\ Len(rows) = iter - 1
    /\ net.tick = iter - 1
    /\ \A r \in Regions : net.steps[r] <= iter

C7_Step == pc = "error" => (rows' = rows /\ net' = net /\ iter' = iter /\ pc' = pc)

\* C7: a failed tick is fatal: the invariant C7_Inv holds in every state and
\* every step from the error state changes nothing (C7_Step).
C7_FailedTickIsFatal == []C7_Inv /\ [][C7_Step]_vars

C7_Witness == errKind = "TickError" /\ Len(rows) >= 1 /\ net.steps["sensor"] = iter

\* C8: in a run that has not failed, one tick ran per row written and every
\* region stepped once per tick; with recordCount = 0 nothing steps.
C8_OneStepPerRecord ==
  /\ errKind = "none" =>
       /\ net.tick = Len(rows)
       /\ \A r \in Regions : net.steps[r] = Len(rows)
       /\ Len(rows) = IF pc = "body" THEN iter - 1 ELSE iter
  /\ pc = "done" => Len(rows) = recordCount
  /\ recordCount = 0 => (rows = <<>> /\ \A r \in Regions : net.steps[r] = 0)

C8_Witness == pc = "done" /\ Len(rows) >= 2 /\ net.steps["SDRClassifierRegion"] = 2

\* C9: the candidate set built by the source's comparison equals the set
\* built by pMax - probabilities[i] < epsilon.
C9_ComparisonsAgree ==
  Selected => Range(candidates) = TieSet(actualValues, probabilities)

\* C10: on non-empty classifier outputs the candidate list is non-empty and
\* holds every maximal candidate, the draw is an index of it, the prediction
\* is one of the classifier's values, and the selection never fails.
C10_SelectionDefined ==
  /\ errKind = "ValueError" => Len(actualValues) = 0
  /\ Selected =>
       /\ Len(candidates) > 0
       /\ draw \in 0..(Len(candidates) - 1)
       /\ LastRow.prediction \in Range(actualValues)
       /\ \A j \in 0..(Len(actualValues) - 1) :
            At(probabilities, j) = Max(probabilities)
              => At(actualValues, j) \in Range(candidates)

C10_Witness ==
  /\ Selected
  /\ Len(actualValues) = 3
  /\ draw > 0
  /\ At(probabilities, 0) < At(probabilities, 1)

-----------------------------------------------------------------------------
(* Properties of the graph and its scheduling *)

FFEdges(c) ==
  {<<DemoLinks[k].src, DemoLinks[k].dst>> : k \in {n \in LinkIds : c[n] = "FeedForward"}}

Compose(R) ==
  {e \in Regions \X Regions : \E m \in Regions : <<e[1], m>> \in R /\ <<m, e[2]>> \in R}

RECURSIVE Closure(_, _)
Closure(R, n) == IF n = 0 THEN R ELSE Closure(R \cup Compose(R), n - 1)

FFReach(c) == Closure(FFEdges(c), Cardinality(Regions))

HasFFCycle(c) == \E r \in Regions : <<r, r>> \in FFReach(c)

Pos(r) == CHOOSE n \in 1..Len(order) : order[n] = r

Inserted(r) == CHOOSE n \in 1..Len(DemoRegions) : DemoRegions[n] = r

IsTopDown(k) == DemoLinks[k].destInput \in TopDownInputs

\* C4: the evaluation order is one total order over all regions, fixed at
\* initialize() and the same on every tick; a FeedForward link's source
\* steps before its destination, Feedback links constrain nothing, regions
\* unordered by feed-forward links keep their insertion order, and the demo
\* graph is ordered sensor, spatial pooler, temporal pooler, classifier.
C4_Inv ==
  phase = "initialized" =>
    /\ Len(order) = Cardinality(Regions)
    /\ Range(order) = Regions
    /\ \A k \in LinkIds :
         class[k] = "FeedForward" => Pos(DemoLinks[k].src) < Pos(DemoLinks[k].dst)
    /\ \A a \in Regions, b \in Regions :
         (/\ <<a, b>> \notin FFReach(class)
          /\ <<b, a>> \notin FFReach(class)
          /\ Inserted(a) < Inserted(b)) => Pos(a) < Pos(b)
    /\ class = DemoClass =>
         order = <<"sensor", "spatialPoolerRegion", "temporalPoolerRegion",
                   "SDRClassifierRegion">>

C4_Step == phase = "initialized" => (order' = order /\ phase' = phase)

C5_Inv ==
  /\ phase # "created" => (phase = "IllegalCycleError" <=> HasFFCycle(class))
  /\ (/\ phase = "initialized"
      /\ \A k \in LinkIds : ~IsTopDown(k) => class[k] = "FeedForward")
       => /\ Cardinality({k \in LinkIds : IsTopDown(k)}) = 3
          /\ \A k \in LinkIds : IsTopDown(k) => class[k] = "Feedback"
  /\ (class = DemoClass /\ phase # "created") => phase = "initialized"
  /\ net.tick > 0 => (phase = "initialized" /\ ~HasFFCycle(class))

C5_Step == phase = "initialized" => phase' = "initialized"

\* C5: the cycle check decides as C5_Inv states in every state, and no step
\* (no tick) takes an initialized graph out of the initialized phase (C5_Step).
C5_CycleCheck == []C5_Inv /\ [][C5_Step]_vars

C5_Witness ==
  /\ phase = "IllegalCycleError"
  /\ \A k \in LinkIds : ~IsTopDown(k) => class[k] = "FeedForward"
  /\ Cardinality({k \in LinkIds : class[k] = "Feedback"}) = 2

\* The value read on link k during the last completed tick, as the claim
\* states it: the source's output of the tick before, or the neutral initial
\* value during tick 0.
Delayed(k) ==
  IF net.tick = 1 THEN Neutral ELSE Produced(DemoLinks[k].src, net.tick - 2)

DemoFeedback ==
  { Link("spatialPoolerRegion", "sensor", "spatialTopDownOut", "spatialTopDownIn"),
    Link("spatialPoolerRegion", "sensor", "temporalTopDownOut", "temporalTopDownIn"),
    Link("temporalPoolerRegion", "spatialPoolerRegion", "topDownOut", "topDownIn") }

\* C1: on every Feedback link the destination reads, during tick t >= 1, the
\* value the source produced during tick t-1 and never the one of tick t;
\* during tick 0 it reads the neutral initial value. The demo graph's
\* top-down links are such links.
C1_FeedbackDelay ==
  net.tick > 0 =>
    /\ \A k \in LinkIds :
         class[k] = "Feedback" =>
           /\ net.read[k] = Delayed(k)
           /\ net.read[k] # Produced(DemoLinks[k].src, net.tick - 1)
    /\ class = DemoClass =>
         \A l \in DemoFeedback :
           \E k \in LinkIds :
             DemoLinks[k] = l /\ class[k] = "Feedback" /\ net.read[k] = Delayed(k)

C1_Witness ==
  /\ class = DemoClass
  /\ net.tick = 3
  /\ net.read[6] = Produced("temporalPoolerRegion", 1)
  /\ net.read[5] = Produced("spatialPoolerRegion", 2)

====
